---- MODULE Spec2Model ----
(***************************************************************************)
(* Model of the Hi5 ETF reminder (hi5_etf_reminder.py): the monthly        *)
(* reminder counter kept in hi5_state.json, the daily rule evaluation of   *)
(* daily_check, the notification fallback and the calendar helpers.        *)
(***************************************************************************)
EXTENDS Integers, Sequences, FiniteSets, TLC

VARIABLES
    clock,      \* the system date, as datetime.date.today() reads it
    file,       \* content of STATE_FILE (hi5_state.json)
    run,        \* per instance: position in daily_check and its locals
    outbox,     \* numbers of the reminders delivered in the month of the latest one
    crashes,    \* number of process crashes so far
    cal,        \* calendar helper evaluation (SpecCal)
    probe,      \* load_state evaluation (SpecLoad)
    loop        \* main_loop: its position, its locals and the time of day (SpecLoop)

vars == <<clock, file, run, outbox, crashes, cal, probe, loop>>

----------------------------------------------------------------------------
(* Bounds of the model *)

\* number of days the clock may advance from StartDate
MaxDays == 36
\* largest number of bars in a fetched price series
MaxBars == 2
\* largest number of crashes in one behaviour (SpecCrash)
MaxCrashes == 1
\* number of years, from the year of StartDate, the calendar helpers are
\* evaluated on (SpecCal)
CalYears == 4
\* number of years, from the year of StartDate, load_state is evaluated on
\* (SpecLoad)
ProbeYears == 2

\* number of midnights main_loop may run through (SpecLoop)
MaxLoopDays == 1
\* longest time between two polls of main_loop, in steps of 30 seconds
MaxSleep == 3
MaxRaceNotes == 3

StartDate == [year |-> 2025, month |-> 2, day |-> 27]

\* closing prices a bar may carry
Prices == {0, 94, 95, 96, 99, 100}

Instances == {1, 2}

----------------------------------------------------------------------------
(* datetime.date: the proleptic Gregorian calendar of the standard library *)

IsLeap(y) == (y % 4 = 0) /\ ((y % 100 # 0) \/ (y % 400 = 0))

DaysInMonth(y, m) ==
    IF m = 2 THEN (IF IsLeap(y) THEN 29 ELSE 28)
    ELSE IF m \in {4, 6, 9, 11} THEN 30 ELSE 31

DaysBeforeYear(y) ==
    (y - 1) * 365 + ((y - 1) \div 4) - ((y - 1) \div 100) + ((y - 1) \div 400)

\* days of the year before the first day of month m
DaysBeforeMonth(y, m) ==
    <<0, 31, 59, 90, 120, 151, 181, 212, 243, 273, 304, 334>>[m]
        + (IF m > 2 /\ IsLeap(y) THEN 1 ELSE 0)

\* date.toordinal(): 0001-01-01 is day 1
ToOrdinal(d) == DaysBeforeYear(d.year) + DaysBeforeMonth(d.year, d.month) + d.day

\* date.weekday(): Monday is 0, Sunday is 6
Weekday(d) == (ToOrdinal(d) + 6) % 7

\* d + datetime.timedelta(days=1)
NextDay(d) ==
    IF d.day < DaysInMonth(d.year, d.month)
    THEN [d EXCEPT !.day = d.day + 1]
    ELSE IF d.month < 12
         THEN [year |-> d.year, month |-> d.month + 1, day |-> 1]
         ELSE [year |-> d.year + 1, month |-> 1, day |-> 1]

\* d - datetime.timedelta(days=1)
PrevDay(d) ==
    IF d.day > 1
    THEN [d EXCEPT !.day = d.day - 1]
    ELSE IF d.month > 1
         THEN [year |-> d.year, month |-> d.month - 1,
               day |-> DaysInMonth(d.year, d.month - 1)]
         ELSE [year |-> d.year - 1, month |-> 12, day |-> 31]

\* d + datetime.timedelta(days=n), n >= 0
RECURSIVE AddDays(_, _)
AddDays(d, n) == IF n = 0 THEN d ELSE AddDays(NextDay(d), n - 1)

\* d - datetime.timedelta(days=n), n >= 0
RECURSIVE SubDays(_, _)
SubDays(d, n) == IF n = 0 THEN d ELSE SubDays(PrevDay(d), n - 1)

\* date.replace(day=1)
ReplaceDay1(d) == [d EXCEPT !.day = 1]

----------------------------------------------------------------------------
(* Calendar helpers *)

IsWeekdayTreatingSaturdayAsOne(date) == Weekday(date) < 6

IsWeekday(date) == Weekday(date) < 5

RECURSIVE FirstWeekdayFrom(_)
FirstWeekdayFrom(d) == IF IsWeekday(d) THEN d ELSE FirstWeekdayFrom(NextDay(d))

FirstTradingDayOfMonth(date) == FirstWeekdayFrom(ReplaceDay1(date))

\* the loop of third_friday_of_month: d is the day examined, n the Fridays
\* counted before it
RECURSIVE ThirdFridayLoop(_, _)
ThirdFridayLoop(d, n) ==
    IF Weekday(d) = 4
    THEN (IF n + 1 = 3 THEN d ELSE ThirdFridayLoop(NextDay(d), n + 1))
    ELSE ThirdFridayLoop(NextDay(d), n)

ThirdFridayCountingFromDate(date) == ThirdFridayLoop(date, 0)

ThirdFridayOfMonth(date) == ThirdFridayLoop(ReplaceDay1(date), 0)

\* is_third_friday_this_month(), with today the value of _today_date()
IsThirdFridayThisMonth(today) ==
    LET first_day == ReplaceDay1(today)
        days_until_first_friday == (4 - Weekday(first_day)) % 7
        first_friday == AddDays(first_day, days_until_first_friday)
        third_friday == AddDays(first_friday, 14)
    IN  today = third_friday

----------------------------------------------------------------------------
(* ReminderState and the state store *)

\* a JSON object is a set of <<key, value>> members
Keys(d) == {kv[1] : kv \in d}
Get(d, k) == (CHOOSE kv \in d : kv[1] = k)[2]

\* ReminderState.to_dict
ToDict(state) ==
    {<<"year", state.year>>, <<"month", state.month>>,
     <<"reminders_sent", state.reminders_sent>>}

\* ReminderState.from_dict reads d["year"], d["month"], d["reminders_sent"];
\* a missing key raises KeyError
FromDictRaises(d) == ~({"year", "month", "reminders_sent"} \subseteq Keys(d))

FromDict(d) ==
    [year |-> Get(d, "year"), month |-> Get(d, "month"),
     reminders_sent |-> Get(d, "reminders_sent")]

\* ReminderState(year=today.year, month=today.month, reminders_sent=0)
FreshState(today) == [year |-> today.year, month |-> today.month, reminders_sent |-> 0]

\* contents of STATE_FILE: no file, a file that cannot be opened, a file whose
\* text json.load rejects (empty or cut short), or the text of a JSON object
AbsentFile == [kind |-> "absent", obj |-> {}]
UnreadableFile == [kind |-> "unreadable", obj |-> {}]
InvalidFile == [kind |-> "invalid", obj |-> {}]
ObjectFile(d) == [kind |-> "object", obj |-> d]

LoadStateKeepingOtherMonth(f, today) ==
    IF f.kind = "absent" THEN FreshState(today)
    ELSE IF f.kind \in {"unreadable", "invalid"} THEN FreshState(today)
    ELSE IF FromDictRaises(f.obj) THEN FreshState(today)
    ELSE FromDict(f.obj)

LoadStateIgnoringFile(f, today) == FreshState(today)

LoadState(f, today) ==
    IF f.kind = "absent"
    THEN FreshState(today)
    ELSE IF f.kind \in {"unreadable", "invalid"}
         THEN FreshState(today)                    \* open or json.load raised
         ELSE IF FromDictRaises(f.obj)
              THEN FreshState(today)               \* KeyError
              ELSE LET state == FromDict(f.obj)
                   IN  IF state.year # today.year \/ state.month # today.month
                       THEN FreshState(today)
                       ELSE state

\* save_state, open(STATE_FILE, "w"): the file exists and is empty
SaveStateOpen(state) == InvalidFile

\* save_state, json.dump and the close that ends the with block
SaveStateWrite(state) == ObjectFile(ToDict(state))

----------------------------------------------------------------------------
(* Prices *)

\* what ticker.history gives: it raises, or it returns a frame of bars
\* [date, close] in date order (possibly none)
RaisedHistory == [raises |-> TRUE, bars |-> <<>>]
History(bars) == [raises |-> FALSE, bars |-> bars]

\* fetch_rsp_prices: None when the download raised or the frame is empty
NoData == [none |-> TRUE, bars |-> <<>>]
FetchRspPrices(raw) ==
    IF raw.raises THEN NoData
    ELSE IF Len(raw.bars) = 0 THEN NoData
    ELSE [none |-> FALSE, bars |-> raw.bars]

\* percent_change, as the exact fraction num/den with den > 0
PercentChange(current, previous) ==
    IF previous = 0
    THEN [num |-> 0, den |-> 1]
    ELSE [num |-> (current - previous) * 100, den |-> previous]

\* pct <= k for an integer k
AtMost(pct, k) == pct.num <= k * pct.den

\* rsp_prices.index.get_loc(pd.Timestamp(date)): the position of the bar of
\* that date, counted from 1; 0 stands for KeyError
GetLoc(bars, date) ==
    IF \E i \in 1..Len(bars) : bars[i].date = date
    THEN CHOOSE i \in 1..Len(bars) : bars[i].date = date
    ELSE 0

ShouldTriggerFirstReminderStrict(today, bars) ==
    LET first_trade_day == FirstTradingDayOfMonth(today)
        idx == GetLoc(bars, first_trade_day)
    IN  IF today # first_trade_day THEN FALSE
        ELSE IF idx = 0 THEN FALSE
        ELSE IF idx = 1 THEN FALSE
        ELSE LET pct == PercentChange(bars[idx].close, bars[idx - 1].close)
             IN  pct.num < (-1) * pct.den

ShouldTriggerFirstReminder(today, bars) ==
    LET first_trade_day == FirstTradingDayOfMonth(today)
        idx == GetLoc(bars, first_trade_day)
    IN  IF today # first_trade_day THEN FALSE
        ELSE IF idx = 0 THEN FALSE                 \* KeyError, caught
        ELSE IF idx = 1 THEN FALSE                 \* no row before it
        ELSE AtMost(PercentChange(bars[idx].close, bars[idx - 1].close), -1)

ShouldTriggerSecondReminderStrict(start_of_month_price, current_price) ==
    LET pct == PercentChange(current_price, start_of_month_price)
    IN  pct.num < (-5) * pct.den

ShouldTriggerSecondReminder(start_of_month_price, current_price) ==
    AtMost(PercentChange(current_price, start_of_month_price), -5)

----------------------------------------------------------------------------
(* daily_check: the rules *)

HasBar(bars, date) == \E i \in 1..Len(bars) : bars[i].date = date

\* float(rsp_data.loc[pd.Timestamp(date)]["Close"])
CloseOn(bars, date) == bars[GetLoc(bars, date)].close

RuleFiresWithoutCap(today, state, rsp_data) ==
    IF rsp_data.none \/ Len(rsp_data.bars) = 0 THEN FALSE
    ELSE LET bars == rsp_data.bars
             first_trade_day == FirstTradingDayOfMonth(today)
         IN  IF state.reminders_sent = 0
             THEN ShouldTriggerFirstReminder(today, bars)
                  \/ today = ThirdFridayOfMonth(today)
             ELSE IF state.reminders_sent >= 1 /\ HasBar(bars, first_trade_day)
                  THEN ShouldTriggerSecondReminder(
                           CloseOn(bars, first_trade_day), bars[Len(bars)].close)
                  ELSE FALSE

RuleFiresWithoutDataCheck(today, state, rsp_data) ==
    LET bars == rsp_data.bars
        first_trade_day == FirstTradingDayOfMonth(today)
    IN  IF state.reminders_sent = 0
        THEN ShouldTriggerFirstReminder(today, bars)
             \/ today = ThirdFridayOfMonth(today)
        ELSE IF state.reminders_sent = 1 /\ HasBar(bars, first_trade_day)
             THEN ShouldTriggerSecondReminder(
                      CloseOn(bars, first_trade_day), bars[Len(bars)].close)
             ELSE FALSE

\* daily_check from the test of rsp_data to the end: TRUE when one of the
\* branches increments state.reminders_sent and sends a reminder
RuleFires(today, state, rsp_data) ==
    IF rsp_data.none \/ Len(rsp_data.bars) = 0
    THEN FALSE                                     \* could not fetch: skip
    ELSE LET bars == rsp_data.bars
             first_trade_day == FirstTradingDayOfMonth(today)
         IN  IF state.reminders_sent = 0
             THEN ShouldTriggerFirstReminder(today, bars)
                  \/ today = ThirdFridayOfMonth(today)
             ELSE IF state.reminders_sent = 1 /\ HasBar(bars, first_trade_day)
                  THEN ShouldTriggerSecondReminder(
                           CloseOn(bars, first_trade_day), bars[Len(bars)].close)
                  ELSE FALSE                       \* >= 2, or no start price

----------------------------------------------------------------------------
(* send_email_reminder *)

\* what the environment does to a send: the three STOCK_EMAIL_* variables
\* are set and SMTP works, one of them is missing, or SMTP raises
Channels == {"ok", "config_missing", "smtp_raises"}

SendEmailReminderNoFallback(channel) ==
    IF channel = "config_missing" THEN "console"
    ELSE IF channel = "smtp_raises" THEN "raise"
    ELSE "email"

\* how the reminder reaches the user: by email, or by print_reminder on the
\* console; "raise" stands for an exception leaving the function
SendEmailReminder(channel) ==
    IF channel = "config_missing" THEN "console"
    ELSE IF channel = "smtp_raises" THEN "console"  \* except Exception
    ELSE "email"

----------------------------------------------------------------------------
(* Inputs *)

\* the last weekday before d
RECURSIVE PrevWeekday(_)
PrevWeekday(d) == IF IsWeekday(PrevDay(d)) THEN PrevDay(d) ELSE PrevWeekday(PrevDay(d))

\* dates a fetched series may have bars for: the trading days around the
\* first trading day and around today, inside the window daily_check asks for
CandidateDates(today) ==
    LET first_trade_day == FirstTradingDayOfMonth(today)
        fetch_start == SubDays(ReplaceDay1(today), 5)
        fetch_end == NextDay(today)                \* exclusive
    IN  {d \in {PrevWeekday(first_trade_day), first_trade_day,
                PrevWeekday(today), today} :
            /\ Weekday(d) < 5
            /\ ToOrdinal(fetch_start) <= ToOrdinal(d)
            /\ ToOrdinal(d) < ToOrdinal(fetch_end)}

\* the dates of D in increasing order
InOrder(D) ==
    IF D = {} THEN <<>>
    ELSE CHOOSE s \in [1..Cardinality(D) -> D] :
        \A i, j \in 1..Cardinality(D) : i < j => ToOrdinal(s[i]) < ToOrdinal(s[j])

\* every series of at most MaxBars bars on dates of D, in date order
SeriesOver(D) ==
    UNION {{[i \in 1..Len(dates) |-> [date |-> dates[i], close |-> c[i]]] :
               c \in [1..Len(dates) -> Prices]} :
           dates \in {InOrder(T) : T \in {U \in SUBSET D : Cardinality(U) <= MaxBars}}}

Histories(today) ==
    {RaisedHistory} \cup {History(b) : b \in SeriesOver(CandidateDates(today))}

----------------------------------------------------------------------------
(* State *)

NoDate == [year |-> 0, month |-> 0, day |-> 0]

Idle ==
    [pc |-> "idle", today |-> NoDate, state |-> FreshState(NoDate),
     loaded |-> FreshState(NoDate), fileAtStart |-> AbsentFile,
     fetched |-> FALSE, raw |-> RaisedHistory, fired |-> FALSE,
     channel |-> "none", via |-> "none", exc |-> FALSE]

EmptyOutbox == [year |-> 0, month |-> 0, notes |-> <<>>]

NoCal == [date |-> NoDate, third |-> NoDate, isThird |-> FALSE, done |-> FALSE]
NoProbe == [file |-> AbsentFile, today |-> NoDate, result |-> FreshState(NoDate),
            done |-> FALSE]

\* main_loop is not running; tod is the time of day in steps of 30 seconds,
\* last_checked_date = NoDate stands for None
NoLoop ==
    [pc |-> "off", tod |-> 0, today_date |-> NoDate, last_checked_date |-> NoDate,
     calls |-> 0, callDate |-> NoDate, callTod |-> 0]

Init ==
    /\ clock = StartDate
    /\ file = AbsentFile
    /\ run = [p \in Instances |-> Idle]
    /\ outbox = EmptyOutbox
    /\ crashes = 0
    /\ cal = NoCal
    /\ probe = NoProbe
    /\ loop = NoLoop

----------------------------------------------------------------------------
(* Steps *)

\* a day passes between two runs
Tick ==
    /\ \A p \in Instances : run[p].pc = "idle"
    /\ ToOrdinal(clock) < ToOrdinal(StartDate) + MaxDays
    /\ clock' = NextDay(clock)
    /\ UNCHANGED <<file, run, outbox, crashes, cal, probe, loop>>

StartRunHoldingLock(p) ==
    /\ \A q \in Instances : run[q].pc = "idle"
    /\ LET today == clock
           state == LoadState(file, today)
       IN  run' = [run EXCEPT ![p] =
                      [Idle EXCEPT !.pc = IF IsWeekday(today) THEN "fetch" ELSE "done",
                                   !.today = today,
                                   !.state = state,
                                   !.loaded = state,
                                   !.fileAtStart = file]]

\* daily_check up to the weekday test: read the date, load the state
StartRun(p) ==
    /\ run[p].pc = "idle"
    /\ LET today == clock
           state == LoadState(file, today)
       IN  run' = [run EXCEPT ![p] =
                      [Idle EXCEPT !.pc = IF IsWeekday(today) THEN "fetch" ELSE "done",
                                   !.today = today,
                                   !.state = state,
                                   !.loaded = state,
                                   !.fileAtStart = file]]

Start(p) ==
    /\ StartRun(p)
    /\ UNCHANGED <<clock, file, outbox, crashes, cal, probe, loop>>

\* daily_check from the fetch to the increment of the counter
FetchFrom(p, raws) ==
    /\ run[p].pc = "fetch"
    /\ \E raw \in raws :
         LET rsp_data == FetchRspPrices(raw)
             fires == RuleFires(run[p].today, run[p].state, rsp_data)
         IN  run' = [run EXCEPT
                       ![p].fetched = TRUE,
                       ![p].raw = raw,
                       ![p].fired = fires,
                       ![p].state.reminders_sent =
                           IF fires THEN @ + 1 ELSE @,
                       ![p].pc = IF fires THEN "send" ELSE "done"]
    /\ UNCHANGED <<clock, file, outbox, crashes, cal, probe, loop>>

Fetch(p) == FetchFrom(p, Histories(run[p].today))

\* send_email_reminder(state.reminders_sent, today)
Send(p) ==
    /\ run[p].pc = "send"
    /\ \E channel \in Channels :
         LET via == SendEmailReminder(channel)
             note == run[p].state.reminders_sent
             sameMonth == /\ outbox.year = run[p].today.year
                          /\ outbox.month = run[p].today.month
         IN  /\ run' = [run EXCEPT ![p].channel = channel,
                                   ![p].via = via,
                                   ![p].exc = (via = "raise"),
                                   ![p].pc = IF via = "raise" THEN "done" ELSE "open"]
             /\ outbox' = IF via = "raise" THEN outbox
                          ELSE [year |-> run[p].today.year,
                                month |-> run[p].today.month,
                                notes |-> IF sameMonth
                                          THEN Append(outbox.notes, note)
                                          ELSE <<note>>]
    /\ UNCHANGED <<clock, file, crashes, cal, probe, loop>>

\* save_state: open(STATE_FILE, "w") truncates the file
SaveOpen(p) ==
    /\ run[p].pc = "open"
    /\ file' = SaveStateOpen(run[p].state)
    /\ run' = [run EXCEPT ![p].pc = "write"]
    /\ UNCHANGED <<clock, outbox, crashes, cal, probe, loop>>

\* save_state: json.dump writes the record and the file is closed
SaveWrite(p) ==
    /\ run[p].pc = "write"
    /\ file' = SaveStateWrite(run[p].state)
    /\ run' = [run EXCEPT ![p].pc = "done"]
    /\ UNCHANGED <<clock, outbox, crashes, cal, probe, loop>>

\* daily_check returns; its locals are gone
ReturnRun(p) ==
    /\ run[p].pc = "done"
    /\ run' = [run EXCEPT ![p] = Idle]

Return(p) ==
    /\ ReturnRun(p)
    /\ UNCHANGED <<clock, file, outbox, crashes, cal, probe, loop>>

\* one instance, run to completion every time
Next ==
    \/ Tick
    \/ Start(1)
    \/ Fetch(1)
    \/ Send(1)
    \/ SaveOpen(1)
    \/ SaveWrite(1)
    \/ Return(1)

Spec == Init /\ [][Next]_vars

----------------------------------------------------------------------------
(* Crashes: the process is killed in the middle of save_state and the      *)
(* scheduler starts it again                                               *)

Crash(p) ==
    /\ run[p].pc \in {"open", "write"}
    /\ crashes < MaxCrashes
    /\ crashes' = crashes + 1
    /\ run' = [run EXCEPT ![p].pc = "crashed"]
    /\ UNCHANGED <<clock, file, outbox, cal, probe, loop>>

Restart(p) ==
    /\ run[p].pc = "crashed"
    /\ run' = [run EXCEPT ![p] = Idle]
    /\ UNCHANGED <<clock, file, outbox, crashes, cal, probe, loop>>

NextCrash ==
    \/ Tick
    \/ Start(1)
    \/ Fetch(1)
    \/ Send(1)
    \/ SaveOpen(1)
    \/ SaveWrite(1)
    \/ Return(1)
    \/ Crash(1)
    \/ Restart(1)

SpecCrash == Init /\ [][NextCrash]_vars

----------------------------------------------------------------------------
(* The calendar helpers on every date of CalYears years *)

CalDates ==
    {[year |-> y, month |-> m, day |-> d] :
        <<y, m, d>> \in {ymd \in (StartDate.year..(StartDate.year + CalYears - 1))
                                  \X (1..12) \X (1..31) :
                            ymd[3] <= DaysInMonth(ymd[1], ymd[2])}}

InitCal ==
    /\ clock = StartDate
    /\ file = AbsentFile
    /\ run = [p \in Instances |-> Idle]
    /\ outbox = EmptyOutbox
    /\ crashes = 0
    /\ cal \in {[NoCal EXCEPT !.date = d] : d \in CalDates}
    /\ probe = NoProbe
    /\ loop = NoLoop

EvalCalendar ==
    /\ ~cal.done
    /\ cal' = [date |-> cal.date,
               third |-> ThirdFridayOfMonth(cal.date),
               isThird |-> IsThirdFridayThisMonth(cal.date),
               done |-> TRUE]
    /\ UNCHANGED <<clock, file, run, outbox, crashes, probe, loop>>

SpecCal == InitCal /\ [][EvalCalendar]_vars

----------------------------------------------------------------------------
(* load_state on every file content and date of ProbeYears years *)

ProbeYearSet == StartDate.year..(StartDate.year + ProbeYears - 1)

ProbeDates ==
    {[year |-> y, month |-> m, day |-> d] :
        <<y, m, d>> \in ProbeYearSet \X (1..12) \X {1, 28}}

\* complete records, and records with members missing
ProbeObjects ==
    UNION {SUBSET ToDict([year |-> y, month |-> m, reminders_sent |-> n]) :
              <<y, m, n>> \in ProbeYearSet \X (1..12) \X (0..3)}

ProbeFiles ==
    {AbsentFile, UnreadableFile, InvalidFile} \cup {ObjectFile(d) : d \in ProbeObjects}

InitLoad ==
    /\ clock = StartDate
    /\ file = AbsentFile
    /\ run = [p \in Instances |-> Idle]
    /\ outbox = EmptyOutbox
    /\ crashes = 0
    /\ cal = NoCal
    /\ probe \in {[NoProbe EXCEPT !.file = f, !.today = t] :
                     <<f, t>> \in ProbeFiles \X ProbeDates}
    /\ loop = NoLoop

EvalLoad ==
    /\ ~probe.done
    /\ probe' = [probe EXCEPT !.result = LoadState(probe.file, probe.today),
                              !.done = TRUE]
    /\ UNCHANGED <<clock, file, run, outbox, crashes, cal, loop>>

SpecLoad == InitLoad /\ [][EvalLoad]_vars

----------------------------------------------------------------------------
(* main_loop: poll the clock every 30 seconds, run daily_check at 15:30     *)

\* the time of day advances in steps of the 30 seconds of time.sleep(30)
SlotsPerHour == 60 * 2
SlotsPerDay == 24 * SlotsPerHour

\* now.hour and now.minute of a time of day
Hour(tod) == tod \div SlotsPerHour
Minute(tod) == (tod % SlotsPerHour) \div 2

ShouldRunDailyCheckAnyPoll(now, last_checked_date) ==
    Hour(now.tod) = 15 /\ Minute(now.tod) = 30

\* the test of main_loop, now = [date, tod] being datetime.datetime.now()
ShouldRunDailyCheck(now, last_checked_date) ==
    Hour(now.tod) = 15 /\ Minute(now.tod) = 30 /\ last_checked_date # now.date

\* the loop starts on the eve of the third Friday of March 2025
LoopStartDate == [year |-> 2025, month |-> 3, day |-> 20]

InitLoop ==
    /\ clock = LoopStartDate
    /\ file = AbsentFile
    /\ run = [p \in Instances |-> Idle]
    /\ outbox = EmptyOutbox
    /\ crashes = 0
    /\ cal = NoCal
    /\ probe = NoProbe
    /\ loop = [NoLoop EXCEPT !.pc = "poll"]

\* the top of an iteration: read the clock, test it, and enter daily_check
\* when the test holds
LoopPoll ==
    /\ loop.pc = "poll"
    /\ LET now == [date |-> clock, tod |-> loop.tod]
           today_date == now.date
       IN  IF ShouldRunDailyCheck(now, loop.last_checked_date)
           THEN /\ StartRun(1)
                /\ loop' = [loop EXCEPT
                              !.pc = "running",
                              !.today_date = today_date,
                              !.calls = IF loop.callDate = today_date THEN @ + 1 ELSE 1,
                              !.callDate = today_date,
                              !.callTod = now.tod]
           ELSE /\ loop' = [loop EXCEPT !.pc = "sleep", !.today_date = today_date]
                /\ UNCHANGED run
    /\ UNCHANGED <<clock, file, outbox, crashes, cal, probe>>

\* daily_check returns to the loop: last_checked_date = today_date
LoopReturn ==
    /\ loop.pc = "running"
    /\ ReturnRun(1)
    /\ loop' = [loop EXCEPT !.pc = "sleep", !.last_checked_date = loop.today_date]
    /\ UNCHANGED <<clock, file, outbox, crashes, cal, probe>>

\* time.sleep(30): the next poll is at least 30 seconds later
LoopSleep ==
    /\ loop.pc = "sleep"
    /\ \E k \in 1..MaxSleep :
         LET t == loop.tod + k
         IN  IF t < SlotsPerDay
             THEN /\ loop' = [loop EXCEPT !.pc = "poll", !.tod = t]
                  /\ UNCHANGED clock
             ELSE /\ ToOrdinal(clock) < ToOrdinal(LoopStartDate) + MaxLoopDays
                  /\ loop' = [loop EXCEPT !.pc = "poll", !.tod = t - SlotsPerDay]
                  /\ clock' = NextDay(clock)
    /\ UNCHANGED <<file, run, outbox, crashes, cal, probe>>

NextLoop ==
    \/ LoopPoll
    \/ Fetch(1)
    \/ Send(1)
    \/ SaveOpen(1)
    \/ SaveWrite(1)
    \/ LoopReturn
    \/ LoopSleep

SpecLoop == InitLoop /\ [][NextLoop]_vars

----------------------------------------------------------------------------
(* Two instances of the script running at the same time on one state file  *)

\* both instances run on the third Friday of March 2025
RaceDate == [year |-> 2025, month |-> 3, day |-> 21]

RacePrices == {95, 100}

\* the download raises, or gives no bar, a bar for today, or bars for the
\* first trading day and for today
RaceHistories(today) ==
    LET first_trade_day == FirstTradingDayOfMonth(today)
        Bar(d, c) == [date |-> d, close |-> c]
    IN  {RaisedHistory, History(<<>>)}
          \cup {History(<<Bar(today, c)>>) : c \in RacePrices}
          \cup {History(<<Bar(first_trade_day, 100), Bar(today, c)>>) :
                   c \in {x \in RacePrices : first_trade_day # today}}

InitRace ==
    /\ clock = RaceDate
    /\ file = AbsentFile
    /\ run = [p \in Instances |-> Idle]
    /\ outbox = EmptyOutbox
    /\ crashes = 0
    /\ cal = NoCal
    /\ probe = NoProbe
    /\ loop = NoLoop

\* an instance is started, at any time, until MaxRaceNotes reminders are out
StartRace(p) ==
    /\ Len(outbox.notes) < MaxRaceNotes
    /\ Start(p)

FetchRace(p) == FetchFrom(p, RaceHistories(run[p].today))

NextRace ==
    \E p \in Instances :
        \/ StartRace(p)
        \/ FetchRace(p)
        \/ Send(p)
        \/ SaveOpen(p)
        \/ SaveWrite(p)
        \/ Return(p)

SpecRace == InitRace /\ [][NextRace]_vars

----------------------------------------------------------------------------
(* Vocabulary of the properties, stated on the calendar and the prices     *)
(* themselves rather than through the helpers of the program               *)

\* the persisted record holds exactly these three values
Persisted(y, m, n) ==
    /\ file.kind = "object"
    /\ file.obj = {<<"year", y>>, <<"month", m>>, <<"reminders_sent", n>>}

\* Monday to Friday
BusinessDay(d) == Weekday(d) \in 0..4

\* no earlier day of the month is a business day
FirstBusinessDay(d) ==
    /\ BusinessDay(d)
    /\ \A k \in 1..(d.day - 1) : ~BusinessDay([d EXCEPT !.day = k])

\* a Friday with exactly two Fridays of the month before it
ThirdFriday(d) ==
    /\ Weekday(d) = 4
    /\ Cardinality({k \in 1..(d.day - 1) : Weekday([d EXCEPT !.day = k]) = 4}) = 2

\* close b is at least k percent below close a
DropOfAtLeast(a, b, k) == a > 0 /\ (b - a) * 100 <= (-k) * a

\* the series has a bar for today, and that bar closes at least 1 % below the
\* bar before it
GapDownToday(bars, today) ==
    \E i \in 2..Len(bars) :
        /\ bars[i].date = today
        /\ DropOfAtLeast(bars[i - 1].close, bars[i].close, 1)

\* the series has a bar for date d, and its latest bar closes at least 5 %
\* below that bar
FivePercentBelow(bars, d) ==
    \E i \in 1..Len(bars) :
        /\ bars[i].date = d
        /\ DropOfAtLeast(bars[i].close, bars[Len(bars)].close, 5)

\* the run of instance 1 ended without a reminder and without a write
NoAction ==
    /\ ~run[1].fired
    /\ run[1].via = "none"
    /\ run[1].state = run[1].loaded
    /\ file = run[1].fileAtStart

Completed == run[1].pc = "done"

----------------------------------------------------------------------------
(* Properties *)

\* C1: for a single instance starting from an absent state file, the counter
\* reminders_sent, in memory and as persisted, is always between 0 and 3, and
\* no more than three reminders are sent within one calendar month.
CounterWithinCap ==
    /\ run[1].state.reminders_sent \in 0..3
    /\ run[1].loaded.reminders_sent \in 0..3
    /\ file.kind = "object" =>
         /\ ~FromDictRaises(file.obj)
         /\ Get(file.obj, "reminders_sent") \in 0..3
    /\ Len(outbox.notes) <= 3

\* the counter has reached its largest value and both reminders went out
CounterAtCap ==
    /\ Completed
    /\ run[1].fired
    /\ Persisted(2025, 3, 2)
    /\ outbox = [year |-> 2025, month |-> 3, notes |-> <<1, 2>>]

\* C2: on a business day with reminders_sent = 0 and a series holding today's
\* bar, reminder #1 fires exactly when today is the first business day and
\* today's close is at least 1 % below the prior close, or today is the third
\* Friday; a firing run persists the counter 1, any other run sends nothing
\* and leaves the state alone.
FirstReminderRule ==
    (/\ Completed
     /\ BusinessDay(run[1].today)
     /\ run[1].loaded.reminders_sent = 0
     /\ HasBar(run[1].raw.bars, run[1].today))
    => LET today == run[1].today
           due == \/ FirstBusinessDay(today) /\ GapDownToday(run[1].raw.bars, today)
                  \/ ThirdFriday(today)
       IN  /\ run[1].fired <=> due
           /\ due => /\ run[1].state.reminders_sent = 1
                     /\ Persisted(today.year, today.month, 1)
                     /\ run[1].via \in {"email", "console"}
                     /\ outbox.notes[Len(outbox.notes)] = 1
           /\ ~due => NoAction

\* the gap-down rule fired on Monday 3 March 2025, the first business day of
\* a month that begins on a Saturday
GapDownFired ==
    /\ Completed
    /\ run[1].today = [year |-> 2025, month |-> 3, day |-> 3]
    /\ run[1].loaded.reminders_sent = 0
    /\ run[1].raw.bars = <<[date |-> [year |-> 2025, month |-> 2, day |-> 28], close |-> 100],
                           [date |-> [year |-> 2025, month |-> 3, day |-> 3], close |-> 99]>>
    /\ run[1].fired
    /\ Persisted(2025, 3, 1)

\* C3: on a business day with reminders_sent = 1, reminder #2 fires exactly
\* when the series holds the close of the first business day of the month and
\* its most recent close is at least 5 % below that close; otherwise nothing
\* is sent and reminders_sent stays 1.
SecondReminderRule ==
    (/\ Completed
     /\ BusinessDay(run[1].today)
     /\ run[1].loaded.reminders_sent = 1)
    => LET today == run[1].today
           due == \E k \in 1..today.day :
                      /\ FirstBusinessDay([today EXCEPT !.day = k])
                      /\ FivePercentBelow(run[1].raw.bars, [today EXCEPT !.day = k])
       IN  /\ run[1].fired <=> due
           /\ due => /\ run[1].state.reminders_sent = 2
                     /\ Persisted(today.year, today.month, 2)
                     /\ run[1].via \in {"email", "console"}
                     /\ outbox.notes[Len(outbox.notes)] = 2
           /\ ~due => /\ NoAction
                      /\ run[1].state.reminders_sent = 1

\* start-of-month close 100, latest close 94: reminder #2 fired
FivePercentFired ==
    /\ Completed
    /\ run[1].loaded.reminders_sent = 1
    /\ run[1].fired
    /\ Len(run[1].raw.bars) = 2
    /\ run[1].raw.bars[1].close = 100
    /\ run[1].raw.bars[2].close = 94
    /\ run[1].raw.bars[2].date = run[1].today
    /\ Persisted(run[1].today.year, run[1].today.month, 2)

\* C4: whenever the counter loaded for the current month is 2 or more,
\* daily_check sends no reminder and does not modify the persisted state,
\* on every date of the month and for every price input.
CapIsFinal ==
    (run[1].pc # "idle" /\ run[1].loaded.reminders_sent >= 2)
    => /\ run[1].pc \in {"fetch", "done"}
       /\ NoAction

\* a run at the cap saw a drop of 6 % from the start of the month and did nothing
CapHeldOnDrop ==
    /\ Completed
    /\ run[1].loaded.reminders_sent = 2
    /\ run[1].fetched
    /\ Len(run[1].raw.bars) = 2
    /\ run[1].raw.bars[1].date = FirstTradingDayOfMonth(run[1].today)
    /\ run[1].raw.bars[1].close = 100
    /\ run[1].raw.bars[2].close = 94
    /\ ~run[1].fired

\* C5: load_state returns the persisted record as stored only when the file
\* exists, parses into a complete record and carries today's year and month;
\* in every other case (absent, unreadable, malformed, another year or month)
\* it returns the fresh state of today's month with count 0.
LoadStateContract ==
    probe.done =>
      LET f == probe.file
          t == probe.today
          stored == {n \in 0..3 :
                        /\ f.kind = "object"
                        /\ {<<"year", t.year>>, <<"month", t.month>>,
                            <<"reminders_sent", n>>} \subseteq f.obj}
      IN  IF stored # {}
          THEN \E n \in stored :
                   probe.result = [year |-> t.year, month |-> t.month, reminders_sent |-> n]
          ELSE probe.result = [year |-> t.year, month |-> t.month, reminders_sent |-> 0]

\* March ended at count 3; loading on the first of April gives count 0
RolloverFromThree ==
    /\ probe.done
    /\ probe.file = ObjectFile({<<"year", 2025>>, <<"month", 3>>, <<"reminders_sent", 3>>})
    /\ probe.today = [year |-> 2025, month |-> 4, day |-> 1]
    /\ probe.result = [year |-> 2025, month |-> 4, reminders_sent |-> 0]

\* C6, as claimed: if the fetched series is absent, empty or has no bar for
\* today, the run is NoAction in every counter state and on every date.
MissingDataIsNoAction ==
    (/\ Completed
     /\ run[1].fetched
     /\ ~HasBar(run[1].raw.bars, run[1].today))
    => NoAction /\ ~run[1].exc

\* C6, amended: if the fetched series is absent or empty the run is NoAction
\* in every counter state and on every date and no exception escapes; if the
\* series has bars but none for today, the gap-down rule cannot fire, so a
\* reminder #1 is sent only on the third Friday and a reminder #2 only on a
\* drop of 5 % of the latest available close from the first business day's.
AbsentDataIsNoAction ==
    (Completed /\ run[1].fetched)
    => LET today == run[1].today
           bars == run[1].raw.bars
       IN  /\ ~run[1].exc
           /\ (run[1].raw.raises \/ Len(bars) = 0) => NoAction
           /\ (~HasBar(bars, today) /\ run[1].fired) =>
                \/ run[1].loaded.reminders_sent = 0 /\ ThirdFriday(today)
                \/ /\ run[1].loaded.reminders_sent = 1
                   /\ \E k \in 1..today.day :
                        /\ FirstBusinessDay([today EXCEPT !.day = k])
                        /\ FivePercentBelow(bars, [today EXCEPT !.day = k])

\* the third Friday of March 2025 with no price data: nothing happened
NoDataOnThirdFriday ==
    /\ Completed
    /\ run[1].fetched
    /\ run[1].raw.raises
    /\ run[1].today = [year |-> 2025, month |-> 3, day |-> 21]
    /\ run[1].loaded.reminders_sent = 0
    /\ ~run[1].fired
    /\ file = AbsentFile

\* no two reminders of the month carry the same number
NoRepeatedNumber ==
    \A i, j \in 1..Len(outbox.notes) : i # j => outbox.notes[i] # outbox.notes[j]

\* C7: when a trigger fires and the notification channel fails, the run falls
\* back to a console notice and reminders_sent is incremented and persisted
\* exactly as for a delivered email, so no later run sends the same number.
DeliveryFailureStillCounts ==
    /\ (Completed /\ run[1].fired)
       => LET today == run[1].today
              n == run[1].loaded.reminders_sent + 1
          IN  /\ ~run[1].exc
              /\ run[1].channel = "ok" => run[1].via = "email"
              /\ run[1].channel # "ok" => run[1].via = "console"
              /\ run[1].state.reminders_sent = n
              /\ Persisted(today.year, today.month, n)
              /\ outbox.notes[Len(outbox.notes)] = n
    /\ NoRepeatedNumber

\* SMTP raised while sending reminder #1: the notice went to the console and
\* the counter 1 is on disk
FailedDeliveryCounted ==
    /\ Completed
    /\ run[1].fired
    /\ run[1].channel = "smtp_raises"
    /\ run[1].via = "console"
    /\ Persisted(2025, 3, 1)
    /\ outbox.notes = <<1>>

\* C8, as claimed: when the process crashes during save_state, the next
\* load_state reads the complete old record or the complete new record.
SaveIsAtomic ==
    run[1].pc = "crashed"
    => LoadState(file, run[1].today) \in {run[1].loaded, run[1].state}

\* C9: on a Saturday or Sunday daily_check sends no reminder, leaves the
\* persisted state unchanged and does not consult the price source, whatever
\* the counter value.
WeekendIsNoAction ==
    (run[1].pc # "idle" /\ Weekday(run[1].today) \in {5, 6})
    => /\ run[1].pc = "done"
       /\ ~run[1].fetched
       /\ NoAction

\* a Saturday run with the counter at 1
SaturdaySkipped ==
    /\ Completed
    /\ Weekday(run[1].today) = 5
    /\ run[1].loaded.reminders_sent = 1
    /\ ~run[1].fetched
    /\ Persisted(run[1].today.year, run[1].today.month, 1)

\* C10: third_friday_of_month gives the same date for every date of a month,
\* that date is a Friday of the month with day 15 to 21, and
\* is_third_friday_this_month is True exactly when today is that date
\* (True on 2025-09-19 and 2025-03-21, False on the Fridays around them).
ThirdFridayContract ==
    cal.done =>
      LET d == cal.date
          On(y, m, k) == [year |-> y, month |-> m, day |-> k]
      IN  /\ \A k \in 1..DaysInMonth(d.year, d.month) :
                 ThirdFridayOfMonth([d EXCEPT !.day = k]) = cal.third
          /\ cal.third.year = d.year
          /\ cal.third.month = d.month
          /\ cal.third.day \in 15..21
          /\ Weekday(cal.third) = 4
          /\ cal.isThird <=> (d = cal.third)
          /\ d \in {On(2025, 9, 19), On(2025, 3, 21)} => cal.isThird
          /\ d \in {On(2025, 9, 12), On(2025, 9, 26), On(2025, 3, 14)} => ~cal.isThird

\* both helpers evaluated on a day late in a month whose third Friday is the 21st
ThirdFridayOfMarch ==
    /\ cal.done
    /\ cal.date = [year |-> 2025, month |-> 3, day |-> 28]
    /\ cal.third = [year |-> 2025, month |-> 3, day |-> 21]
    /\ ~cal.isThird

\* C11: main_loop invokes daily_check at most once per calendar day, and only
\* while the clock reads 15:30, however many polls fall inside that minute.
OncePerDayAtHalfPastThree ==
    /\ loop.calls <= 1
    /\ loop.calls > 0 => loop.callTod \in {15 * 120 + 30 * 2, 15 * 120 + 30 * 2 + 1}
    /\ run[1].pc # "idle" =>
         /\ loop.pc = "running"
         /\ loop.callDate = clock
         /\ loop.tod \in {15 * 120 + 30 * 2, 15 * 120 + 30 * 2 + 1}

\* the check of the day ran at 15:30:00 and the loop polls again at 15:30:30
\* without running it a second time
SecondPollInTheMinute ==
    /\ loop.pc = "sleep"
    /\ loop.tod = 15 * 120 + 30 * 2 + 1
    /\ loop.today_date = clock
    /\ loop.last_checked_date = clock
    /\ loop.calls = 1
    /\ loop.callTod = 15 * 120 + 30 * 2

\* the number of reminders delivered so far in the month of the current run
SentThisMonth ==
    IF outbox.year = run[1].today.year /\ outbox.month = run[1].today.month
    THEN Len(outbox.notes)
    ELSE 0

\* C12: for a single instance with no crashes, each daily_check run sends at
\* most one reminder and raises reminders_sent by exactly 1 when it sends one
\* and by 0 otherwise; the number sent is the counter after the increment, so
\* the reminders of a month carry the numbers 1, 2, ... in order with no
\* repeat and no gap, and #2 is never sent before #1.
RemindersInOrder ==
    /\ \A i \in 1..Len(outbox.notes) : outbox.notes[i] = i
    /\ run[1].pc \in {"fetch", "send"} => SentThisMonth = run[1].loaded.reminders_sent
    /\ run[1].pc \in {"open", "write"} =>
         /\ run[1].fired
         /\ SentThisMonth = run[1].loaded.reminders_sent + 1
    /\ Completed =>
         /\ run[1].fired <=> run[1].via # "none"
         /\ run[1].fired =>
              /\ run[1].state.reminders_sent = run[1].loaded.reminders_sent + 1
              /\ SentThisMonth = run[1].loaded.reminders_sent + 1
              /\ outbox.notes[Len(outbox.notes)] = run[1].state.reminders_sent
         /\ ~run[1].fired =>
              /\ run[1].state.reminders_sent = run[1].loaded.reminders_sent
              /\ SentThisMonth = run[1].loaded.reminders_sent

\* reminder #1 went out on Monday 3 March 2025 and reminder #2 the day after
SecondFollowsFirst ==
    /\ Completed
    /\ run[1].today = [year |-> 2025, month |-> 3, day |-> 4]
    /\ run[1].loaded.reminders_sent = 1
    /\ run[1].state.reminders_sent = 2
    /\ run[1].via = "email"
    /\ outbox.notes = <<1, 2>>

\* instance p has sent a reminder in its current run
HasSent(p) == run[p].pc \in {"open", "write", "done"} /\ run[p].fired

\* how many reminders with number n are out
Occurrences(n) == Cardinality({i \in 1..Len(outbox.notes) : outbox.notes[i] = n})

\* C13: nothing serialises concurrent runs of daily_check. While one instance
\* is between its load_state and the end of its save_state, another instance
\* can start and load the same file; two instances that loaded the same
\* counter and both fired have each sent a reminder with the same sequence
\* number in the same month, and what they save is that one number.
ConcurrentRunsAreNotSerialised ==
    \A p, q \in Instances : p # q =>
        /\ run[p].pc \in {"fetch", "send", "open", "write", "done"} /\ run[q].pc = "idle"
             => ENABLED Start(q)
        /\ ( /\ HasSent(p) /\ HasSent(q)
             /\ run[p].loaded = run[q].loaded )
             => /\ run[p].today.month = run[q].today.month
                /\ run[p].state.reminders_sent = run[p].loaded.reminders_sent + 1
                /\ run[q].state = run[p].state
                /\ Occurrences(run[p].state.reminders_sent) >= 2
                /\ (run[p].pc = "done" /\ run[q].pc = "done")
                     => file = ObjectFile(ToDict(run[p].state))

\* both instances loaded count 0 on the third Friday, both sent reminder #1,
\* and the file they leave says one reminder was sent
DoubleFire ==
    /\ run[1].pc = "done" /\ run[2].pc = "done"
    /\ run[1].today = RaceDate /\ run[2].today = RaceDate
    /\ run[1].fired /\ run[2].fired
    /\ run[1].loaded.reminders_sent = 0 /\ run[2].loaded.reminders_sent = 0
    /\ run[1].fileAtStart = AbsentFile /\ run[2].fileAtStart = AbsentFile
    /\ outbox.notes = <<1, 1>>
    /\ file = ObjectFile(ToDict([year |-> 2025, month |-> 3, reminders_sent |-> 1]))

====
